---- MODULE Spec2Model ----
(***************************************************************************)
(* Model of rinor/rpc-proxy: the per-IP rate limiter registry              *)
(* (src/proxy.go, type limiters) driven by concurrent request workers,     *)
(* and the policy transport that consults it before a request is           *)
(* forwarded to the upstream node.                                         *)
(*                                                                         *)
(* Time is counted in ticks of three seconds, so time.Minute is 20 ticks.  *)
(* A bucket's token count is a float64 in golang.org/x/time/rate; here it  *)
(* is kept exactly, as an integer number of 1/unit tokens, where unit is   *)
(* the number of ticks one token takes to refill.                          *)
(***************************************************************************)
EXTENDS Integers, Sequences, FiniteSets, TLC

\* ---------------------------------------------------------------- bounds
MaxTime == 4
MaxStep == 4
MaxRequests == 3
MaxSettings == 1

\* ------------------------------------------------------------- constants
Minute == 20
BurstDivisor == 10
Nil == 0

Workers == {"w1", "w2"}
IPs == {"a", "b", "x"}
Limits == {-20, 0, 5, 20}
NoLimitLists == {<<"x">>}

\* ------------------------------------------------------------ arithmetic
Abs(x) == IF x < 0 THEN -x ELSE x

\* Go's integer division truncates toward zero (TLA+'s \div floors).
GoDiv(a, b) ==
  IF (a < 0) = (b < 0) THEN Abs(a) \div Abs(b) ELSE -(Abs(a) \div Abs(b))

Min(a, b) == IF a < b THEN a ELSE b
Max(a, b) == IF a > b THEN a ELSE b
Range(s) == {s[i] : i \in DOMAIN s}

VARIABLES
  requestsPerMinuteLimit, \* myTransport.requestsPerMinuteLimit
  noLimitIPs,             \* limiters.noLimitIPs (key set of the map)
  minGasPrice,            \* myTransport.minGasPrice
  blockRangeLimit,        \* myTransport.blockRangeLimit
  matcher,                \* myTransport.matcher (compiled allow-list)
  visitors,               \* limiters.visitors: IP -> limiter reference
  heap,                   \* the rate.Limiter objects allocated so far
  rwWriter,               \* limiters.RWMutex: holder of the write lock
  rwReaders,              \* limiters.RWMutex: holders of the read lock
  now,                    \* time.Now()
  pc,                     \* each worker's position
  ip,                     \* argument ip of the worker's AllowVisitor call
  limitArg,               \* argument requestsPerMinuteLimit of that call
  limiter,                \* local variable limiter (reference into heap)
  exists,                 \* local variable exists of getVisitor
  added,                  \* result added
  allowed,                \* result allowed
  body,                   \* request body once the transport has read it
  outcome,                \* what the transport did with the request
  started,                \* number of requests accepted by the listener
  toml,                   \* main: the ConfigData unmarshalled from the file
  flags,                  \* main: the flag destination variables
  cfg,                    \* main: var cfg ConfigData, then run's receiver
  mainPc,                 \* main: position in app.Action and run
  err,                    \* main: the error app.Action returned
  response                \* the last response a route handler produced

cfgVars == <<requestsPerMinuteLimit, noLimitIPs, minGasPrice, blockRangeLimit, matcher>>
regVars == <<visitors, heap>>
lockVars == <<rwWriter, rwReaders>>
localVars == <<ip, limitArg, limiter, exists, added, allowed>>
rtVars == <<body, outcome>>
mainVars == <<toml, flags, cfg, mainPc, err, response>>
vars == <<cfgVars, mainVars, regVars, lockVars, now, pc, localVars, rtVars, started>>

\* ------------------------------------------------ golang.org/x/time/rate
\* rate.Every(interval): a non-positive interval means no limit (rate.Inf).
EveryIsInf(interval) == interval <= 0

\* rate.NewLimiter(rate.Every(interval), burst): the bucket starts full.
\* Fields owner and rpm are history, not part of the Go object: the IP and
\* the limit the bucket was created for.
NewLimiter(interval, burst, forIP, rpm, t) ==
  LET inf == EveryIsInf(interval)
      unit == IF inf THEN 1 ELSE interval
  IN [inf |-> inf, unit |-> unit, burst |-> burst,
      tokens |-> burst * unit, last |-> t,
      owner |-> forIP, rpm |-> rpm]

\* Limiter.advance: tokens available at time t, capped at burst.
Advance(lim, t) ==
  LET last == Min(lim.last, t)
      elapsed == t - last
  IN Min(lim.burst * lim.unit, lim.tokens + elapsed)

\* Limiter.Allow() == AllowN(time.Now(), 1): the result.
AllowOk(lim, t) ==
  IF lim.inf THEN TRUE
  ELSE 1 <= lim.burst /\ Advance(lim, t) - lim.unit >= 0

\* Allow as it would be if a granted request took no token.
AllowNextWithoutSpending(lim, t) ==
  IF lim.inf \/ ~AllowOk(lim, t) THEN lim
  ELSE [lim EXCEPT !.last = t, !.tokens = Advance(lim, t)]

\* Limiter.Allow(): the limiter after the call (state changes only if ok).
AllowNext(lim, t) ==
  IF lim.inf THEN lim
  ELSE IF AllowOk(lim, t)
       THEN [lim EXCEPT !.tokens = Advance(lim, t) - lim.unit, !.last = t]
       ELSE lim

\* ------------------------------------------------------ JSON-RPC payload
\* A method name is a sequence of segments; a pattern is a method name
\* whose last segment may be the wildcard "*".
EthBlockNumber == <<"eth_", "blockNumber">>
EthSendRawTransaction == <<"eth_", "sendRawTransaction">>
EthGetLogs == <<"eth_", "getLogs">>
NetVersion == <<"net_", "version">>

\* A block bound on the wire: a symbolic tag, unspecified, or a height.
Sym(tag) == [tag |-> tag, height |-> 0]
Height(h) == [tag |-> "number", height |-> h]
NoParams == [raw |-> 0, fromBlock |-> Sym("unspecified"), toBlock |-> Sym("unspecified")]

\* raw < 0 stands for a payload that does not decode as a transaction;
\* raw >= 0 stands for the encoding of a transaction with that fee.
RawTx(raw) == [NoParams EXCEPT !.raw = raw]
Filter(from, to) == [NoParams EXCEPT !.fromBlock = from, !.toBlock = to]

Call(method, params, id) == [method |-> method, params |-> params, id |-> id]

NoBody == [kind |-> "unread", calls |-> <<>>]
Malformed == [kind |-> "malformed", calls |-> <<>>]
Single(c) == [kind |-> "single", calls |-> <<c>>]
Batch(cs) == [kind |-> "batch", calls |-> cs]

GasFloors == {0, 2}
RangeCeilings == {0, 2}
AllowLists == {<<>>, <<<<"eth_", "*">>>>, <<EthBlockNumber, EthGetLogs>>}

\* The policies and bodies the concurrent system is run on.
Policies == { [gas |-> 2, range |-> 2, allow |-> <<<<"eth_", "*">>>>] }

Bodies ==
  { Single(Call(EthBlockNumber, NoParams, 1)),
    Batch(<<Call(EthBlockNumber, NoParams, 1), Call(NetVersion, NoParams, 2)>>) }

\* The policies and bodies the transport alone is run on.
Methods == {EthBlockNumber, EthSendRawTransaction, EthGetLogs, NetVersion}
RawPayloads == {-1, 0, 1, 2, 3}
BlockBounds ==
  {Sym("latest"), Sym("earliest"), Sym("pending"), Sym("unspecified"),
   Height(1), Height(3), Height(4)}
ParamSets ==
  {NoParams} \cup {RawTx(r) : r \in RawPayloads}
             \cup {Filter(f, t) : f \in BlockBounds, t \in BlockBounds}
AllCalls == {Call(m, p, 1) : m \in Methods, p \in ParamSets}
AllPolicies ==
  {[gas |-> g, range |-> c, allow |-> a] :
     g \in GasFloors, c \in RangeCeilings, a \in AllowLists}
AllBodies ==
  {Malformed} \cup {Single(c) : c \in AllCalls}
              \cup {Batch(<<Call(EthBlockNumber, NoParams, 1), c>>) : c \in AllCalls}

\* ------------------------------------------------------------ ConfigData
\* type ConfigData, with Go's zero values. Gas prices of the command line
\* and the file are counted in Gwei.
ZeroConfig ==
  [Port |-> "", URL |-> "", WSURL |-> "", Allow |-> <<>>, RPM |-> 0,
   NoLimit |-> <<>>, BlockRangeLimit |-> 0, MinGasPrice |-> 0]

\* The flag destination variables with the defaults of app.Flags. A flag
\* that the code splits at commas holds a sequence of fields and commas
\* (see Split); the empty sequence is the empty string. Field given is
\* history: the flags the operator passed on the command line.
DefaultFlags ==
  [config |-> "", port |-> "8545", url |-> "http://127.0.0.1:8040",
   wsurl |-> "ws://127.0.0.1:8041", allow |-> <<>>, rpm |-> 1000,
   nolimit |-> <<>>, blocklimit |-> 0, mingasprice |-> 60, given |-> {}]

NoResponse == [route |-> "none", headers |-> {}]

\* ---------------------------------------------------------------- errors
Error(m) == [msg |-> m, cause |-> ""]
NilError == Error("nil")
\* fmt.Errorf("failed to start server: %s", err), run line 187.
FailedToStart(e) == [msg |-> "failed to start server", cause |-> e.msg]

\* ------------------------------------------------- strings.Split, sort
\* A comma-separated flag value: its fields, each held whole, and commas.
\* e is the empty string of the fields' kind.
Field(t) == [sep |-> FALSE, text |-> t]
Comma(e) == [sep |-> TRUE, text |-> e]

FieldText(f, e) == IF Len(f) = 0 THEN e ELSE f[1].text

\* strings.Split(s, ","): the text before the first comma, then the
\* split of what follows it; a string without a comma is its only field.
RECURSIVE Split(_, _)
Split(s, e) ==
  LET commas == {i \in DOMAIN s : s[i].sep}
  IN IF commas = {}
     THEN <<FieldText(s, e)>>
     ELSE LET c == CHOOSE i \in commas : \A j \in commas : i <= j
          IN <<FieldText(SubSeq(s, 1, c - 1), e)>> \o Split(SubSeq(s, c + 1, Len(s)), e)

\* Byte order of the strings in use, ascending.
IPOrder == <<"", "a", "b", "x">>
PatternOrder ==
  << <<>>, <<"*", "eth_">>, <<"eth_", "*">>, EthBlockNumber, EthGetLogs,
     EthSendRawTransaction, <<"net_", "*">>, NetVersion >>

Rank(x, order) == CHOOSE i \in DOMAIN order : order[i] = x

\* sort.Strings, run lines 178-179.
RECURSIVE SortStrings(_, _)
SortStrings(s, order) ==
  IF Len(s) = 0 THEN s
  ELSE LET x == s[Len(s)]
           rest == SortStrings(SubSeq(s, 1, Len(s) - 1), order)
           k == Cardinality({i \in DOMAIN rest : Rank(rest[i], order) <= Rank(x, order)})
       IN SubSeq(rest, 1, k) \o <<x>> \o SubSeq(rest, k + 1, Len(rest))

\* ------------------------------------------------------- app.Action merge
\* Lines 119-166, one operator per block. r is the handler's progress: the
\* cfg built so far and the error it has returned, if any.
MergePort(r) ==
  IF r.err # NilError \/ flags.port = "" THEN r
  ELSE IF r.cfg.Port # "" THEN [r EXCEPT !.err = Error("port set in two places")]
  ELSE [r EXCEPT !.cfg.Port = flags.port]

MergeURL(r) ==
  IF r.err # NilError \/ flags.url = "" THEN r
  ELSE IF r.cfg.URL # "" THEN [r EXCEPT !.err = Error("url set in two places")]
  ELSE [r EXCEPT !.cfg.URL = flags.url]

MergeWSURL(r) ==
  IF r.err # NilError \/ flags.wsurl = "" THEN r
  ELSE IF r.cfg.WSURL # "" THEN [r EXCEPT !.err = Error("ws url set in two places")]
  ELSE [r EXCEPT !.cfg.WSURL = flags.wsurl]

MergeRPM(r) ==
  IF r.err # NilError \/ flags.rpm = 0 THEN r
  ELSE IF r.cfg.RPM # 0 THEN [r EXCEPT !.err = Error("rpm set in two places")]
  ELSE [r EXCEPT !.cfg.RPM = flags.rpm]

MergeAllow(r) ==
  IF r.err # NilError \/ Len(flags.allow) = 0 THEN r
  ELSE IF Len(r.cfg.Allow) > 0 THEN [r EXCEPT !.err = Error("allow set in two places")]
  ELSE [r EXCEPT !.cfg.Allow = Split(flags.allow, <<>>)]

MergeNoLimit(r) ==
  IF r.err # NilError \/ Len(flags.nolimit) = 0 THEN r
  ELSE IF Len(r.cfg.NoLimit) > 0 THEN [r EXCEPT !.err = Error("nolimit set in two places")]
  ELSE [r EXCEPT !.cfg.NoLimit = Split(flags.nolimit, "")]

MergeBlockRangeLimit(r) ==
  IF r.err # NilError \/ ~(flags.blocklimit > 0) THEN r
  ELSE IF r.cfg.BlockRangeLimit > 0
       THEN [r EXCEPT !.err = Error("block range limit set in two places")]
  ELSE [r EXCEPT !.cfg.BlockRangeLimit = flags.blocklimit]

MergeMinGasPrice(r) ==
  IF r.err # NilError \/ ~(flags.mingasprice > 0) THEN r
  ELSE IF r.cfg.MinGasPrice > 0
       THEN [r EXCEPT !.err = Error("min gas price set in two places")]
  ELSE [r EXCEPT !.cfg.MinGasPrice = flags.mingasprice]

\* Lines 119-166 in order, starting from the cfg the file gave.
Merged(loaded) ==
  MergeMinGasPrice(MergeBlockRangeLimit(MergeNoLimit(MergeAllow(
    MergeRPM(MergeWSURL(MergeURL(MergePort([cfg |-> loaded, err |-> NilError]))))))))

\* run lines 178-179: the lists as run hands them to NewServer.
Sorted(c) ==
  [c EXCEPT !.Allow = SortStrings(c.Allow, PatternOrder),
            !.NoLimit = SortStrings(c.NoLimit, IPOrder)]

\* ------------------------------------------------------------- NewServer
\* url.Parse fails on these (a host with an unclosed bracket).
UnparsableURLs == {"http://[::1", "ws://[::1"}
ParseFails(u) == u \in UnparsableURLs

\* newMatcher: a pattern is empty, or has a "*" before its last place.
InvalidPattern(p) == Len(p) = 0 \/ \E i \in 1..(Len(p) - 1) : p[i] = "*"

\* The error NewServer returns for c, lines 26-42.
NewServerError(c) ==
  IF ParseFails(c.URL) THEN Error("parse")
  ELSE IF ParseFails(c.WSURL) THEN Error("parse")
  ELSE IF \E i \in DOMAIN c.Allow : InvalidPattern(c.Allow[i]) THEN Error("InvalidPattern")
  ELSE NilError

\* ------------------------------------------------------------------ Init
\* No request has arrived: every worker idle, no visitor registered.
NoRequests(W) ==
  /\ visitors = [i \in {} |-> Nil]
  /\ heap = <<>>
  /\ rwWriter = "none"
  /\ rwReaders = {}
  /\ now = 0
  /\ pc = [w \in W |-> "idle"]
  /\ ip = [w \in W |-> "a"]
  /\ limitArg = [w \in W |-> 0]
  /\ limiter = [w \in W |-> Nil]
  /\ exists = [w \in W |-> FALSE]
  /\ added = [w \in W |-> FALSE]
  /\ allowed = [w \in W |-> FALSE]
  /\ body = [w \in W |-> NoBody]
  /\ outcome = [w \in W |-> "none"]
  /\ started = 0
  /\ response = NoResponse

\* No server has been constructed: the zero myTransport and limiters.
NoServer ==
  /\ requestsPerMinuteLimit = 0
  /\ noLimitIPs = {}
  /\ minGasPrice = 0
  /\ blockRangeLimit = 0
  /\ matcher = <<>>

\* The state NewServer leaves, lines 35-47, once ListenAndServe has been
\* reached: configuration copied from cfg, no visitor yet. The limit and
\* the gas floor come from the flags, the lists and the range ceiling from
\* the file.
Listening(rpm, noLimit, policy) ==
  /\ toml = [ZeroConfig EXCEPT !.Allow = policy.allow, !.NoLimit = noLimit,
                               !.BlockRangeLimit = policy.range]
  /\ flags = [DefaultFlags EXCEPT !.config = "proxy.toml", !.rpm = rpm,
                                  !.mingasprice = policy.gas,
                                  !.given = {"rpm", "mingasprice"}]
  /\ cfg = Sorted(Merged(toml).cfg)
  /\ Merged(toml).err = NilError
  /\ NewServerError(cfg) = NilError
  /\ mainPc = "listening"
  /\ err = NilError
  /\ requestsPerMinuteLimit = cfg.RPM
  /\ noLimitIPs = Range(cfg.NoLimit)
  /\ minGasPrice = cfg.MinGasPrice
  /\ blockRangeLimit = cfg.BlockRangeLimit
  /\ matcher = cfg.Allow

NewServer(rpm, noLimit, policy) ==
  /\ Listening(rpm, noLimit, policy)
  /\ NoRequests(Workers)

Init == \E rpm \in Limits, nl \in NoLimitLists, p \in Policies : NewServer(rpm, nl, p)

\* --------------------------------------------------------------- limiters
\* AllowVisitor as it would be without lines 193-195 (no exemption test).
AllowVisitorNoExemption(w) ==
  /\ pc[w] = "AllowVisitor"
  /\ pc' = [pc EXCEPT ![w] = "getVisitor"]
  /\ UNCHANGED <<cfgVars, mainVars, regVars, lockVars, now, localVars, rtVars, started>>

\* AllowVisitor, lines 193-196: the exemption test, then getVisitor.
AllowVisitor(w) ==
  /\ pc[w] = "AllowVisitor"
  /\ IF ip[w] \in noLimitIPs
     THEN /\ allowed' = [allowed EXCEPT ![w] = TRUE]
          /\ added' = [added EXCEPT ![w] = FALSE]
          /\ pc' = [pc EXCEPT ![w] = "returned"]
     ELSE /\ pc' = [pc EXCEPT ![w] = "getVisitor"]
          /\ UNCHANGED <<allowed, added>>
  /\ UNCHANGED <<cfgVars, mainVars, regVars, lockVars, now, ip, limitArg, limiter, exists, rtVars, started>>

\* getVisitor, line 183: ls.RLock().
getVisitorRLock(w) ==
  /\ pc[w] = "getVisitor"
  /\ rwWriter = "none"
  /\ rwReaders' = rwReaders \cup {w}
  /\ pc' = [pc EXCEPT ![w] = "gvRead"]
  /\ UNCHANGED <<cfgVars, mainVars, regVars, rwWriter, now, localVars, rtVars, started>>

\* getVisitor, line 184: limiter, exists := ls.visitors[ip].
getVisitorRead(w) ==
  /\ pc[w] = "gvRead"
  /\ exists' = [exists EXCEPT ![w] = ip[w] \in DOMAIN visitors]
  /\ limiter' = [limiter EXCEPT ![w] =
                   IF ip[w] \in DOMAIN visitors THEN visitors[ip[w]] ELSE Nil]
  /\ pc' = [pc EXCEPT ![w] = "gvRUnlock"]
  /\ UNCHANGED <<cfgVars, mainVars, regVars, lockVars, now, ip, limitArg, added, allowed, rtVars, started>>

\* getVisitor as it would be without the RUnlock of line 185.
getVisitorKeepsRLock(w) ==
  /\ pc[w] = "gvRUnlock"
  /\ added' = [added EXCEPT ![w] = FALSE]
  /\ pc' = [pc EXCEPT ![w] = IF exists[w] THEN "Allow" ELSE "tryAddVisitor"]
  /\ UNCHANGED <<cfgVars, mainVars, regVars, lockVars, now, ip, limitArg, limiter, exists, allowed, rtVars, started>>

\* getVisitor, lines 185-189: ls.RUnlock(), then return or tryAddVisitor.
getVisitorRUnlock(w) ==
  /\ pc[w] = "gvRUnlock"
  /\ rwReaders' = rwReaders \ {w}
  /\ added' = [added EXCEPT ![w] = FALSE]
  /\ pc' = [pc EXCEPT ![w] = IF exists[w] THEN "Allow" ELSE "tryAddVisitor"]
  /\ UNCHANGED <<cfgVars, mainVars, regVars, rwWriter, now, ip, limitArg, limiter, exists, allowed, rtVars, started>>

\* tryAddVisitor, line 170: ls.Lock().
tryAddVisitorLock(w) ==
  /\ pc[w] = "tryAddVisitor"
  /\ rwWriter = "none"
  /\ rwReaders = {}
  /\ rwWriter' = w
  /\ pc' = [pc EXCEPT ![w] = "taBody"]
  /\ UNCHANGED <<cfgVars, mainVars, regVars, rwReaders, now, localVars, rtVars, started>>

\* The bucket tryAddVisitor builds, lines 176-177.
BurstOf(rpm) == GoDiv(rpm, BurstDivisor)
IntervalOf(rpm) == GoDiv(Minute, rpm)
CreateLimiter(forIP, rpm, t) == NewLimiter(IntervalOf(rpm), BurstOf(rpm), forIP, rpm, t)

\* tryAddVisitor as it would be if it also recorded the new visitor in
\* the exempt set.
tryAddVisitorExempting(w) ==
  /\ pc[w] = "taBody"
  /\ IF ip[w] \in DOMAIN visitors
     THEN /\ limiter' = [limiter EXCEPT ![w] = visitors[ip[w]]]
          /\ added' = [added EXCEPT ![w] = FALSE]
          /\ pc' = [pc EXCEPT ![w] = "taUnlock"]
          /\ UNCHANGED <<regVars, noLimitIPs>>
     ELSE IF limitArg[w] = 0
     THEN /\ pc' = [pc EXCEPT ![w] = "taPanic"]
          /\ UNCHANGED <<regVars, limiter, added, noLimitIPs>>
     ELSE /\ heap' = Append(heap, CreateLimiter(ip[w], limitArg[w], now))
          /\ visitors' = [i \in DOMAIN visitors \cup {ip[w]} |->
                            IF i = ip[w] THEN Len(heap) + 1 ELSE visitors[i]]
          /\ noLimitIPs' = noLimitIPs \cup {ip[w]}
          /\ limiter' = [limiter EXCEPT ![w] = Len(heap) + 1]
          /\ added' = [added EXCEPT ![w] = TRUE]
          /\ pc' = [pc EXCEPT ![w] = "taUnlock"]
  /\ UNCHANGED <<requestsPerMinuteLimit, minGasPrice, blockRangeLimit, matcher, mainVars, lockVars, now, ip, limitArg, exists, allowed, rtVars, started>>

\* tryAddVisitor as it would be if it reported every bucket it returns
\* as newly added.
tryAddVisitorReportsAdded(w) ==
  /\ pc[w] = "taBody"
  /\ IF ip[w] \in DOMAIN visitors
     THEN /\ limiter' = [limiter EXCEPT ![w] = visitors[ip[w]]]
          /\ added' = [added EXCEPT ![w] = TRUE]
          /\ pc' = [pc EXCEPT ![w] = "taUnlock"]
          /\ UNCHANGED regVars
     ELSE IF limitArg[w] = 0
     THEN /\ pc' = [pc EXCEPT ![w] = "taPanic"]
          /\ UNCHANGED <<regVars, limiter, added>>
     ELSE /\ heap' = Append(heap, CreateLimiter(ip[w], limitArg[w], now))
          /\ visitors' = [i \in DOMAIN visitors \cup {ip[w]} |->
                            IF i = ip[w] THEN Len(heap) + 1 ELSE visitors[i]]
          /\ limiter' = [limiter EXCEPT ![w] = Len(heap) + 1]
          /\ added' = [added EXCEPT ![w] = TRUE]
          /\ pc' = [pc EXCEPT ![w] = "taUnlock"]
  /\ UNCHANGED <<cfgVars, mainVars, lockVars, now, ip, limitArg, exists, allowed, rtVars, started>>

\* tryAddVisitor as it would be without the second lookup of lines 172-175.
tryAddVisitorNoRecheck(w) ==
  /\ pc[w] = "taBody"
  /\ IF limitArg[w] = 0
     THEN /\ pc' = [pc EXCEPT ![w] = "taPanic"]
          /\ UNCHANGED <<regVars, limiter, added>>
     ELSE /\ heap' = Append(heap, CreateLimiter(ip[w], limitArg[w], now))
          /\ visitors' = [i \in DOMAIN visitors \cup {ip[w]} |->
                            IF i = ip[w] THEN Len(heap) + 1 ELSE visitors[i]]
          /\ limiter' = [limiter EXCEPT ![w] = Len(heap) + 1]
          /\ added' = [added EXCEPT ![w] = TRUE]
          /\ pc' = [pc EXCEPT ![w] = "taUnlock"]
  /\ UNCHANGED <<cfgVars, mainVars, lockVars, now, ip, limitArg, exists, allowed, rtVars, started>>

\* tryAddVisitor, lines 172-179, under the write lock. A limit of zero
\* makes line 176 divide by zero: the goroutine panics.
tryAddVisitor(w) ==
  /\ pc[w] = "taBody"
  /\ IF ip[w] \in DOMAIN visitors
     THEN /\ limiter' = [limiter EXCEPT ![w] = visitors[ip[w]]]
          /\ added' = [added EXCEPT ![w] = FALSE]
          /\ pc' = [pc EXCEPT ![w] = "taUnlock"]
          /\ UNCHANGED regVars
     ELSE IF limitArg[w] = 0
     THEN /\ pc' = [pc EXCEPT ![w] = "taPanic"]
          /\ UNCHANGED <<regVars, limiter, added>>
     ELSE /\ heap' = Append(heap, CreateLimiter(ip[w], limitArg[w], now))
          /\ visitors' = [i \in DOMAIN visitors \cup {ip[w]} |->
                            IF i = ip[w] THEN Len(heap) + 1 ELSE visitors[i]]
          /\ limiter' = [limiter EXCEPT ![w] = Len(heap) + 1]
          /\ added' = [added EXCEPT ![w] = TRUE]
          /\ pc' = [pc EXCEPT ![w] = "taUnlock"]
  /\ UNCHANGED <<cfgVars, mainVars, lockVars, now, ip, limitArg, exists, allowed, rtVars, started>>

\* The deferred unlock as it would be if the write lock stayed held.
tryAddVisitorKeepsLock(w) ==
  /\ pc[w] \in {"taUnlock", "taPanic"}
  /\ pc' = [pc EXCEPT ![w] = IF pc[w] = "taPanic" THEN "panicked" ELSE "Allow"]
  /\ UNCHANGED <<cfgVars, mainVars, regVars, lockVars, now, localVars, rtVars, started>>

\* tryAddVisitor, line 171: the deferred ls.Unlock(), also run on a panic.
tryAddVisitorUnlock(w) ==
  /\ pc[w] \in {"taUnlock", "taPanic"}
  /\ rwWriter' = "none"
  /\ pc' = [pc EXCEPT ![w] = IF pc[w] = "taPanic" THEN "panicked" ELSE "Allow"]
  /\ UNCHANGED <<cfgVars, mainVars, regVars, rwReaders, now, localVars, rtVars, started>>

\* AllowVisitor, line 197: limiter.Allow(), atomic under the limiter's own
\* mutex, on the object the local variable refers to.
LimiterAllow(w) ==
  /\ pc[w] = "Allow"
  /\ allowed' = [allowed EXCEPT ![w] = AllowOk(heap[limiter[w]], now)]
  /\ heap' = [heap EXCEPT ![limiter[w]] = AllowNext(@, now)]
  /\ pc' = [pc EXCEPT ![w] = "returned"]
  /\ UNCHANGED <<cfgVars, mainVars, visitors, lockVars, now, ip, limitArg, limiter, exists, added, rtVars, started>>

\* time.Now() moves forward.
Tick ==
  /\ \E d \in 1..MaxStep :
       /\ now + d <= MaxTime
       /\ now' = now + d
  /\ UNCHANGED <<cfgVars, mainVars, regVars, lockVars, pc, localVars, rtVars, started>>

\* --------------------------------------------------------- Method Matcher
\* IsAllowed: an empty allow-list allows everything; otherwise an exact
\* match, or a match of everything before a trailing "*".
MatchesPattern(p, m) ==
  \/ p = m
  \/ /\ Len(p) >= 1
     /\ p[Len(p)] = "*"
     /\ Len(m) >= Len(p) - 1
     /\ SubSeq(m, 1, Len(p) - 1) = SubSeq(p, 1, Len(p) - 1)

IsAllowed(m) ==
  \/ matcher = <<>>
  \/ \E i \in DOMAIN matcher : MatchesPattern(matcher[i], m)

\* -------------------------------------------------------- Call Validators
\* Decoding of a raw transaction payload: its fee, or a failure.
DecodeFails(raw) == raw < 0
DecodedFee(raw) == raw

\* The gas price check with the comparison off by one (<= for <).
GasPriceCheckInclusive(c) ==
  IF c.method # EthSendRawTransaction \/ minGasPrice = 0 THEN "ok"
  ELSE IF DecodeFails(c.params.raw) THEN "MalformedRequest"
  ELSE IF DecodedFee(c.params.raw) <= minGasPrice THEN "GasPriceTooLow"
  ELSE "ok"

\* Minimum gas price: raw-transaction submissions only, skipped at floor 0.
GasPriceCheck(c) ==
  IF c.method # EthSendRawTransaction \/ minGasPrice = 0 THEN "ok"
  ELSE IF DecodeFails(c.params.raw) THEN "MalformedRequest"
  ELSE IF DecodedFee(c.params.raw) < minGasPrice THEN "GasPriceTooLow"
  ELSE "ok"

\* Block range span: range-style queries only, skipped at ceiling 0 and
\* when a bound does not resolve to a concrete height.
IsConcrete(b) == b.tag = "number"

\* The block range check with the comparison off by one (>= for >).
BlockRangeCheckInclusive(c) ==
  IF c.method # EthGetLogs \/ blockRangeLimit = 0 THEN "ok"
  ELSE IF ~IsConcrete(c.params.fromBlock) \/ ~IsConcrete(c.params.toBlock) THEN "ok"
  ELSE IF c.params.toBlock.height - c.params.fromBlock.height >= blockRangeLimit
       THEN "BlockRangeTooWide"
  ELSE "ok"

\* Block range span: toBlock - fromBlock against the ceiling.
BlockRangeCheck(c) ==
  IF c.method # EthGetLogs \/ blockRangeLimit = 0 THEN "ok"
  ELSE IF ~IsConcrete(c.params.fromBlock) \/ ~IsConcrete(c.params.toBlock) THEN "ok"
  ELSE IF c.params.toBlock.height - c.params.fromBlock.height > blockRangeLimit
       THEN "BlockRangeTooWide"
  ELSE "ok"

\* ------------------------------------------------------- Policy Transport
\* Step 4 for one Call: the matcher first, then the validators.
CallVerdict(c) ==
  IF ~IsAllowed(c.method) THEN "MethodNotAllowed"
  ELSE IF GasPriceCheck(c) # "ok" THEN GasPriceCheck(c)
  ELSE BlockRangeCheck(c)

\* The verdict of a body as it would be if only its first Call were checked.
BodyVerdictFirstCallOnly(b) ==
  IF b.kind = "malformed" THEN "MalformedRequest"
  ELSE CallVerdict(b.calls[1])

\* Steps 3-5 for a body: the reason of the first rejected Call, or "ok".
BodyVerdict(b) ==
  IF b.kind = "malformed" THEN "MalformedRequest"
  ELSE LET bad == {i \in DOMAIN b.calls : CallVerdict(b.calls[i]) # "ok"}
       IN IF bad = {} THEN "ok"
          ELSE CallVerdict(b.calls[CHOOSE i \in bad : \A j \in bad : i <= j])

\* Step 1: a request arrives from client IP i and the limiter is consulted.
RoundTripBegin(w, i) ==
  /\ pc[w] = "idle"
  /\ started < MaxRequests
  /\ started' = started + 1
  /\ ip' = [ip EXCEPT ![w] = i]
  /\ limitArg' = [limitArg EXCEPT ![w] = requestsPerMinuteLimit]
  /\ pc' = [pc EXCEPT ![w] = "AllowVisitor"]
  /\ UNCHANGED <<cfgVars, mainVars, regVars, lockVars, now, limiter, exists, added, allowed, rtVars>>

\* Step 2: not allowed, so a RateLimited rejection and nothing else.
RoundTripRateLimited(w) ==
  /\ pc[w] = "returned"
  /\ ~allowed[w]
  /\ outcome' = [outcome EXCEPT ![w] = "RateLimited"]
  /\ pc' = [pc EXCEPT ![w] = "done"]
  /\ UNCHANGED <<cfgVars, mainVars, regVars, lockVars, now, localVars, body, started>>

\* Step 3 as it would be if the body were read whatever the limiter said.
RoundTripReadBodyUnchecked(w, b) ==
  /\ pc[w] = "returned"
  /\ body' = [body EXCEPT ![w] = b]
  /\ pc' = [pc EXCEPT ![w] = "parsed"]
  /\ UNCHANGED <<cfgVars, mainVars, regVars, lockVars, now, localVars, outcome, started>>

\* Step 3: the body is read and parsed, once the limiter has allowed.
RoundTripReadBody(w, b) ==
  /\ pc[w] = "returned"
  /\ allowed[w]
  /\ body' = [body EXCEPT ![w] = b]
  /\ pc' = [pc EXCEPT ![w] = "parsed"]
  /\ UNCHANGED <<cfgVars, mainVars, regVars, lockVars, now, localVars, outcome, started>>

\* Steps 3-5: a rejection is synthesized, or the request goes on.
RoundTripCheck(w) ==
  /\ pc[w] = "parsed"
  /\ IF BodyVerdict(body[w]) = "ok"
     THEN /\ pc' = [pc EXCEPT ![w] = "forward"]
          /\ UNCHANGED outcome
     ELSE /\ outcome' = [outcome EXCEPT ![w] = BodyVerdict(body[w])]
          /\ pc' = [pc EXCEPT ![w] = "done"]
  /\ UNCHANGED <<cfgVars, mainVars, regVars, lockVars, now, localVars, body, started>>

\* Step 6: the plain transport's round trip to the upstream node.
RoundTripForward(w) ==
  /\ pc[w] = "forward"
  /\ outcome' = [outcome EXCEPT ![w] = "forwarded"]
  /\ pc' = [pc EXCEPT ![w] = "done"]
  /\ UNCHANGED <<cfgVars, mainVars, regVars, lockVars, now, localVars, body, started>>

\* The response is written (or the panic recovered) and the worker is free.
RoundTripEnd(w) ==
  /\ pc[w] \in {"done", "panicked"}
  /\ pc' = [pc EXCEPT ![w] = "idle"]
  /\ ip' = [ip EXCEPT ![w] = "a"]
  /\ limitArg' = [limitArg EXCEPT ![w] = 0]
  /\ limiter' = [limiter EXCEPT ![w] = Nil]
  /\ exists' = [exists EXCEPT ![w] = FALSE]
  /\ added' = [added EXCEPT ![w] = FALSE]
  /\ allowed' = [allowed EXCEPT ![w] = FALSE]
  /\ body' = [body EXCEPT ![w] = NoBody]
  /\ outcome' = [outcome EXCEPT ![w] = "none"]
  /\ UNCHANGED <<cfgVars, mainVars, regVars, lockVars, now, started>>

\* ------------------------------------------------------- specifications
Next ==
  \/ \E w \in Workers, i \in IPs : RoundTripBegin(w, i)
  \/ \E w \in Workers : AllowVisitor(w)
  \/ \E w \in Workers : getVisitorRLock(w)
  \/ \E w \in Workers : getVisitorRead(w)
  \/ \E w \in Workers : getVisitorRUnlock(w)
  \/ \E w \in Workers : tryAddVisitorLock(w)
  \/ \E w \in Workers : tryAddVisitor(w)
  \/ \E w \in Workers : tryAddVisitorUnlock(w)
  \/ \E w \in Workers : LimiterAllow(w)
  \/ \E w \in Workers : RoundTripRateLimited(w)
  \/ \E w \in Workers, b \in Bodies : RoundTripReadBody(w, b)
  \/ \E w \in Workers : RoundTripCheck(w)
  \/ \E w \in Workers : RoundTripForward(w)
  \/ \E w \in Workers : RoundTripEnd(w)
  \/ Tick

Spec == Init /\ [][Next]_vars

\* The transport on its own: one worker, every policy, every body.
TransportLimits == {20}
TransportClients == {"a", "x"}

TransportInit ==
  \E rpm \in TransportLimits, nl \in NoLimitLists, p \in AllPolicies :
    NewServer(rpm, nl, p)

TransportNext ==
  \/ \E i \in TransportClients : RoundTripBegin("w1", i)
  \/ AllowVisitor("w1")
  \/ getVisitorRLock("w1")
  \/ getVisitorRead("w1")
  \/ getVisitorRUnlock("w1")
  \/ tryAddVisitorLock("w1")
  \/ tryAddVisitor("w1")
  \/ tryAddVisitorUnlock("w1")
  \/ LimiterAllow("w1")
  \/ RoundTripRateLimited("w1")
  \/ \E b \in AllBodies : RoundTripReadBody("w1", b)
  \/ RoundTripCheck("w1")
  \/ RoundTripForward("w1")
  \/ RoundTripEnd("w1")

TransportSpec == TransportInit /\ [][TransportNext]_vars

\* ---------------------------------------------------------------- main
\* What the operator can give: a configuration file and command-line flags.
ConfigPaths == {"", "proxy.toml", "missing.toml"}
MissingFiles == {"missing.toml"}
SettingNames ==
  {"port", "url", "wsurl", "rpm", "allow", "nolimit", "blocklimit", "mingasprice"}
\* The sets of settings one source gives.
Given == {g \in SUBSET SettingNames : Cardinality(g) <= MaxSettings}

Ports == {"8545", "9000"}
URLs == {"http://127.0.0.1:8040", "http://[::1"}
WSURLs == {"ws://127.0.0.1:8041", "ws://[::1"}
\* A limit above 20 refills faster than once a tick: at this resolution its
\* bucket never runs dry, as the real one does not within MaxRequests.
RPMs == {0, 20, 1000}
AllowFlags ==
  { <<Field(<<"eth_", "*">>)>>,
    <<Field(<<"net_", "*">>), Comma(<<>>), Field(<<"eth_", "*">>)>>,
    <<Field(<<"*", "eth_">>)>>,
    <<Field(<<"eth_", "*">>), Comma(<<>>)>> }
NoLimitFlags == { <<Field("x")>>, <<Field("x"), Comma(""), Field("b")>> }
BlockLimits == {0, 2}
MinGasPrices == {0, 2, 60}

FileAllows == { <<<<"eth_", "*">>>>, <<<<"net_", "*">>, <<"*", "eth_">>>> }

\* The values a flag can hold: any of vs if passed, else its default.
Passed(g, name, vs, default) == IF name \in g THEN vs ELSE {default}

\* The setting is present in the file.
TomlGives(s) ==
  CASE s = "port" -> toml.Port # ""
    [] s = "url" -> toml.URL # ""
    [] s = "wsurl" -> toml.WSURL # ""
    [] s = "rpm" -> toml.RPM # 0
    [] s = "allow" -> Len(toml.Allow) > 0
    [] s = "nolimit" -> Len(toml.NoLimit) > 0
    [] s = "blocklimit" -> toml.BlockRangeLimit > 0
    [] s = "mingasprice" -> toml.MinGasPrice > 0

ServerWorkers == {"w1"}

\* The process starts: flags parsed, the file on disk, nothing else done.
ServerInit ==
  /\ \E path \in ConfigPaths, g \in Given :
       \E p \in Passed(g, "port", Ports, DefaultFlags.port),
          u \in Passed(g, "url", URLs, DefaultFlags.url),
          ws \in Passed(g, "wsurl", WSURLs, DefaultFlags.wsurl),
          r \in Passed(g, "rpm", RPMs, DefaultFlags.rpm),
          a \in Passed(g, "allow", AllowFlags, DefaultFlags.allow),
          n \in Passed(g, "nolimit", NoLimitFlags, DefaultFlags.nolimit),
          b \in Passed(g, "blocklimit", BlockLimits, DefaultFlags.blocklimit),
          m \in Passed(g, "mingasprice", MinGasPrices, DefaultFlags.mingasprice) :
         flags = [config |-> path, port |-> p, url |-> u, wsurl |-> ws,
                  allow |-> a, rpm |-> r, nolimit |-> n, blocklimit |-> b,
                  mingasprice |-> m, given |-> g]
  /\ \E t \in Given :
       \E p \in Passed(t, "port", {"9000"}, ""),
          u \in Passed(t, "url", URLs, ""),
          ws \in Passed(t, "wsurl", WSURLs, ""),
          r \in Passed(t, "rpm", {20}, 0),
          a \in Passed(t, "allow", FileAllows, <<>>),
          n \in Passed(t, "nolimit", {<<"x">>}, <<>>),
          b \in Passed(t, "blocklimit", {2}, 0),
          m \in Passed(t, "mingasprice", {2}, 0) :
         toml = [Port |-> p, URL |-> u, WSURL |-> ws, Allow |-> a, RPM |-> r,
                 NoLimit |-> n, BlockRangeLimit |-> b, MinGasPrice |-> m]
  /\ flags.config # "proxy.toml" => toml = ZeroConfig
  /\ cfg = ZeroConfig
  /\ mainPc = "start"
  /\ err = NilError
  /\ NoServer
  /\ NoRequests(ServerWorkers)

\* app.Action, lines 108-167: load the file, merge the flags, call run.
AppAction ==
  /\ mainPc = "start"
  /\ IF flags.config \in MissingFiles
     THEN /\ err' = Error("no such file")
          /\ mainPc' = "exited"
          /\ UNCHANGED cfg
     ELSE LET m == Merged(IF flags.config # "" THEN toml ELSE cfg)
          IN /\ cfg' = m.cfg
             /\ err' = m.err
             /\ mainPc' = IF m.err = NilError THEN "run" ELSE "exited"
  /\ UNCHANGED <<cfgVars, toml, flags, response, regVars, lockVars, now, pc, localVars, rtVars, started>>

\* The Server NewServer builds from c, lines 35-47.
Construct(c) ==
  /\ requestsPerMinuteLimit' = c.RPM
  /\ noLimitIPs' = Range(c.NoLimit)
  /\ minGasPrice' = c.MinGasPrice
  /\ blockRangeLimit' = c.BlockRangeLimit
  /\ matcher' = c.Allow

\* run as it would be if it went on after NewServer's error.
runIgnoringError ==
  /\ mainPc = "run"
  /\ cfg' = Sorted(cfg)
  /\ Construct(Sorted(cfg))
  /\ mainPc' = "ListenAndServe"
  /\ UNCHANGED <<err, toml, flags, response, regVars, lockVars, now, pc, localVars, rtVars, started>>

\* run, lines 178-208: sort the lists, construct the Server or return its
\* error, register the routes.
run ==
  /\ mainPc = "run"
  /\ cfg' = Sorted(cfg)
  /\ IF NewServerError(Sorted(cfg)) # NilError
     THEN /\ err' = FailedToStart(NewServerError(Sorted(cfg)))
          /\ mainPc' = "exited"
          /\ UNCHANGED cfgVars
     ELSE /\ Construct(Sorted(cfg))
          /\ mainPc' = "ListenAndServe"
          /\ UNCHANGED err
  /\ UNCHANGED <<toml, flags, response, regVars, lockVars, now, pc, localVars, rtVars, started>>

\* run, line 209: http.ListenAndServe binds the port and serves, or
\* returns its error (the port is taken).
ListenAndServe ==
  /\ mainPc = "ListenAndServe"
  /\ \/ mainPc' = "listening" /\ UNCHANGED err
     \/ mainPc' = "exited" /\ err' = Error("listen")
  /\ UNCHANGED <<cfgVars, toml, flags, cfg, response, regVars, lockVars, now, pc, localVars, rtVars, started>>

\* ---------------------------------------------------------------- routes
IdentifyingHeader == "X-rpc-proxy"

\* GET /: Server.HomePage, proxy.go lines 54-61, writes an empty page.
HomePage ==
  /\ mainPc = "listening"
  /\ started < MaxRequests
  /\ started' = started + 1
  /\ response' = [route |-> "GET /", headers |-> {}]
  /\ UNCHANGED <<cfgVars, toml, flags, cfg, mainPc, err, regVars, lockVars, now, pc, localVars, rtVars>>

\* HEAD /: the function literal of main.go lines 203-205.
HeadRoot ==
  /\ mainPc = "listening"
  /\ started < MaxRequests
  /\ started' = started + 1
  /\ response' = [route |-> "HEAD /", headers |-> {}]
  /\ UNCHANGED <<cfgVars, toml, flags, cfg, mainPc, err, regVars, lockVars, now, pc, localVars, rtVars>>

\* The reverse proxy's ServeHTTP hands the request of client i to the
\* transport, which consults the limiter first.
ServeHTTP(w, i) ==
  /\ pc[w] = "idle"
  /\ started < MaxRequests
  /\ started' = started + 1
  /\ ip' = [ip EXCEPT ![w] = i]
  /\ limitArg' = [limitArg EXCEPT ![w] = requestsPerMinuteLimit]
  /\ pc' = [pc EXCEPT ![w] = "AllowVisitor"]
  /\ UNCHANGED <<cfgVars, toml, flags, cfg, mainPc, err, regVars, lockVars, now, limiter, exists, added, allowed, rtVars>>

\* ANY /*: Server.RPCProxy, proxy.go lines 63-66.
RPCProxy(w, i) ==
  /\ mainPc = "listening"
  /\ response' = [route |-> "/*", headers |-> {IdentifyingHeader}]
  /\ ServeHTTP(w, i)

\* ANY /ws: Server.WSProxy, proxy.go lines 68-71.
WSProxy(w, i) ==
  /\ mainPc = "listening"
  /\ response' = [route |-> "/ws", headers |-> {IdentifyingHeader}]
  /\ ServeHTTP(w, i)

ServerNext ==
  \/ AppAction
  \/ run
  \/ ListenAndServe
  \/ HomePage
  \/ HeadRoot
  \/ \E i \in TransportClients : RPCProxy("w1", i)
  \/ \E i \in TransportClients : WSProxy("w1", i)
  \/ AllowVisitor("w1")
  \/ getVisitorRLock("w1")
  \/ getVisitorRead("w1")
  \/ getVisitorRUnlock("w1")
  \/ tryAddVisitorLock("w1")
  \/ tryAddVisitor("w1")
  \/ tryAddVisitorUnlock("w1")
  \/ LimiterAllow("w1")
  \/ RoundTripRateLimited("w1")
  \/ \E b \in Bodies : RoundTripReadBody("w1", b)
  \/ RoundTripCheck("w1")
  \/ RoundTripForward("w1")
  \/ RoundTripEnd("w1")

ServerSpec == ServerInit /\ [][ServerNext]_vars

\* ------------------------------------------------- the registry on its own
\* The limiters type called directly: each caller makes one AllowVisitor
\* call, for any IP and with any limit.
Callers == {"w1", "w2", "w3"}
\* Goroutines are interchangeable: they are named in the order of their calls.
Earlier(w) == CASE w = "w1" -> {} [] w = "w2" -> {"w1"} [] w = "w3" -> {"w1", "w2"}
CallLimits == {0, 10, 20}

LimiterInit ==
  /\ \E nl \in NoLimitLists, p \in Policies : Listening(20, nl, p)
  /\ NoRequests(Callers)

\* A goroutine calls AllowVisitor(i, l), line 192.
AllowVisitorCall(w, i, l) ==
  /\ pc[w] = "idle"
  /\ \A v \in Earlier(w) : pc[v] # "idle"
  /\ ip' = [ip EXCEPT ![w] = i]
  /\ limitArg' = [limitArg EXCEPT ![w] = l]
  /\ pc' = [pc EXCEPT ![w] = "AllowVisitor"]
  /\ UNCHANGED <<cfgVars, mainVars, regVars, lockVars, now, limiter, exists, added, allowed, rtVars, started>>

\* The next step of caller w inside its AllowVisitor call.
CallStep(w) ==
  \/ AllowVisitor(w)
  \/ getVisitorRLock(w)
  \/ getVisitorRead(w)
  \/ getVisitorRUnlock(w)
  \/ tryAddVisitorLock(w)
  \/ tryAddVisitor(w)
  \/ tryAddVisitorUnlock(w)
  \/ LimiterAllow(w)

\* The calls with the clock standing still, each passing the limit the
\* server was started with, or none.
StartLimits == {0, 20}

CallsNext ==
  \/ \E w \in Callers, i \in IPs, l \in StartLimits : AllowVisitorCall(w, i, l)
  \/ \E w \in Callers : CallStep(w)

CallsSpec == LimiterInit /\ [][CallsNext]_vars

\* The same, every goroutine that can take a step being eventually
\* scheduled.
FairCallsSpec == CallsSpec /\ \A w \in Callers : WF_vars(CallStep(w))

\* The calls of one throttled and one exempt client as time passes.
LimiterNext ==
  \/ \E w \in Callers, i \in TransportClients, l \in CallLimits :
       AllowVisitorCall(w, i, l)
  \/ \E w \in Callers : CallStep(w)
  \/ Tick

LimiterSpec == LimiterInit /\ [][LimiterNext]_vars

\* ================================================================ claims
NonExempt(w) == ip[w] \notin noLimitIPs
InLimiter(w) == pc[w] \in {"Allow", "returned", "parsed", "forward", "done"}

\* C1: concurrent first requests from one non-exempt IP create and
\* register at most one bucket for it; every caller that reaches
\* limiter.Allow() holds the bucket registered in visitors[ip], and
\* consumes from no other.
C1_OneBucketPerIP ==
  /\ \A i, j \in DOMAIN heap : heap[i].owner = heap[j].owner => i = j
  /\ \A i \in DOMAIN visitors :
       visitors[i] \in DOMAIN heap /\ heap[visitors[i]].owner = i
  /\ \A w \in Workers :
       InLimiter(w) /\ NonExempt(w) =>
         ip[w] \in DOMAIN visitors /\ limiter[w] = visitors[ip[w]]

\* Two workers raced on the first request of one IP: both missed in
\* getVisitor, one created the bucket, the other reuses it.
C1_Witness ==
  \E w, v \in Workers :
    /\ w # v /\ ip[w] = ip[v] /\ NonExempt(w)
    /\ pc[w] = "Allow" /\ pc[v] = "Allow"
    /\ ~exists[w] /\ ~exists[v]
    /\ added[w] /\ ~added[v]
    /\ limiter[w] = limiter[v]

\* C2: for an exempt IP AllowVisitor returns allowed = true and
\* bucketCreated = false, whatever was requested before, and leaves the
\* visitors map and every bucket untouched; no exempt IP is ever registered.
C2_ExemptUntouched ==
  [][\A w \in Workers :
       (pc[w] = "AllowVisitor" /\ pc'[w] # "AllowVisitor" /\ ip[w] \in noLimitIPs) =>
         /\ pc'[w] = "returned"
         /\ allowed'[w] /\ ~added'[w]
         /\ visitors' = visitors /\ heap' = heap
         /\ \A i \in noLimitIPs : i \notin DOMAIN visitors']_vars

\* An exempt request returned allowed after all other requests of the run,
\* while a throttled IP's bucket is registered and drained.
C2_Witness ==
  \E w \in Workers :
    /\ pc[w] = "returned" /\ ip[w] \in noLimitIPs /\ allowed[w] /\ ~added[w]
    /\ started = MaxRequests
    /\ \E i \in DOMAIN visitors : ~AllowOk(heap[visitors[i]], now)

\* C3: with a limit <= 0 every AllowVisitor call for a non-exempt IP
\* completes normally and returns allowed = true, the bucket-creating call
\* included.
C3_NonPositiveLimitDisables ==
  requestsPerMinuteLimit <= 0 =>
    \A w \in Workers :
      /\ pc[w] \notin {"taPanic", "panicked"}
      /\ (pc[w] \in {"returned", "parsed", "forward", "done"} => allowed[w])

\* C4: a bucket created for a limit >= 1 has capacity
\* max(1, floor(limit / 10)) and starts full (so that for limits 1..9 the
\* first request finds one token).
C4_BurstAtLeastOne ==
  \A i \in DOMAIN heap :
    heap[i].rpm >= 1 =>
      /\ heap[i].burst = Max(1, heap[i].rpm \div BurstDivisor)
      /\ \A w \in Workers :
           pc[w] = "taUnlock" /\ added[w] /\ limiter[w] = i =>
             heap[i].tokens = Max(1, heap[i].rpm \div BurstDivisor) * heap[i].unit

\* C5: with a limit of N >= 1 per minute a bucket regains one token per
\* 60/N seconds: a request that finds at least 60/N seconds elapsed since
\* the bucket was created or last granted a request is allowed.
C5_RegainsOneTokenPerInterval ==
  [][\A w \in Workers :
       (/\ pc[w] = "Allow" /\ pc'[w] = "returned"
        /\ heap[limiter[w]].rpm >= 1
        /\ (now - heap[limiter[w]].last) * heap[limiter[w]].rpm >= Minute)
       => allowed'[w]]_vars

\* C6: every registered bucket's token count t satisfies
\* 0 <= t <= capacity.
C6_TokensWithinCapacity ==
  \A i \in DOMAIN visitors :
    /\ 0 <= heap[visitors[i]].tokens
    /\ heap[visitors[i]].tokens <= heap[visitors[i]].burst * heap[visitors[i]].unit


\* What the validators are required to reject, stated on the Call itself.
FeeTooLow(c) ==
  /\ c.method = EthSendRawTransaction
  /\ minGasPrice > 0
  /\ c.params.raw >= 0 /\ c.params.raw < minGasPrice

Undecodable(c) ==
  /\ c.method = EthSendRawTransaction
  /\ minGasPrice > 0
  /\ c.params.raw < 0

RangeTooWide(c) ==
  /\ c.method = EthGetLogs
  /\ blockRangeLimit > 0
  /\ c.params.fromBlock.tag = "number" /\ c.params.toBlock.tag = "number"
  /\ c.params.toBlock.height - c.params.fromBlock.height > blockRangeLimit

Checked(w) == pc[w] \in {"forward", "done"} /\ body[w] # NoBody
Forwarding(w) == pc[w] = "forward" \/ outcome[w] = "forwarded"

\* C7: a request handed to the plain transport was allowed by the rate
\* limiter, parsed, and every one of its Calls is allowed by the matcher
\* and accepted by both validators; one rejected Call of a batch keeps the
\* whole batch from the upstream.
C7_ForwardedPassedEveryCheck ==
  \A w \in Workers :
    Forwarding(w) =>
      /\ allowed[w]
      /\ body[w].kind \in {"single", "batch"}
      /\ \A k \in DOMAIN body[w].calls :
           /\ IsAllowed(body[w].calls[k].method)
           /\ ~FeeTooLow(body[w].calls[k])
           /\ ~Undecodable(body[w].calls[k])
           /\ ~RangeTooWide(body[w].calls[k])

\* A batch of two Calls from a rate-limited client went upstream.
C7_Witness ==
  \E w \in Workers :
    /\ outcome[w] = "forwarded" /\ NonExempt(w)
    /\ body[w].kind = "batch" /\ Len(body[w].calls) = 2
    /\ body[w].calls[2].method = EthGetLogs

\* C8: a request the limiter did not allow gets a RateLimited rejection
\* with no body read and no upstream call; the body is read, parsed and
\* checked only for requests the limiter allowed.
C8_RateLimitFirst ==
  \A w \in Workers :
    /\ outcome[w] = "RateLimited" => ~allowed[w] /\ body[w] = NoBody
    /\ (body[w] # NoBody \/ pc[w] \in {"parsed", "forward"}
          \/ outcome[w] \notin {"none", "RateLimited"}) => allowed[w]
    /\ (pc[w] = "done" /\ ~allowed[w]) => outcome[w] = "RateLimited"

\* The third request of a client with a burst of two is turned away.
C8_Witness ==
  \E w \in Workers :
    /\ pc[w] = "done" /\ outcome[w] = "RateLimited" /\ NonExempt(w)
    /\ body[w] = NoBody /\ ~allowed[w]

\* C9: with floor m = 0 no Call is rejected for its gas price; with m > 0
\* a raw-transaction submission with decoded fee g is rejected with
\* GasPriceTooLow exactly when g < m, and one whose payload does not decode
\* is rejected with MalformedRequest; Calls of other methods are never
\* rejected by this check.
C9_GasPriceFloor ==
  \A w \in Workers :
    Checked(w) /\ body[w].kind \in {"single", "batch"} =>
      LET calls == body[w].calls
          last == calls[Len(calls)]
          \* every Call before the last one passes all checks
          reached == \A k \in 1..(Len(calls) - 1) :
                       /\ IsAllowed(calls[k].method)
                       /\ ~FeeTooLow(calls[k]) /\ ~Undecodable(calls[k])
                       /\ ~RangeTooWide(calls[k])
      IN /\ outcome[w] = "GasPriceTooLow" => \E k \in DOMAIN calls : FeeTooLow(calls[k])
         /\ (reached /\ IsAllowed(last.method)) =>
              /\ outcome[w] = "GasPriceTooLow" <=> FeeTooLow(last)
              /\ Undecodable(last) => outcome[w] = "MalformedRequest"
              /\ (outcome[w] = "MalformedRequest" => Undecodable(last))
         /\ (\E k \in DOMAIN calls : FeeTooLow(calls[k]) \/ Undecodable(calls[k]))
              => ~Forwarding(w)

\* A submission whose fee equals the floor went upstream.
C9_Witness ==
  \E w \in Workers :
    /\ outcome[w] = "forwarded" /\ body[w].kind = "single"
    /\ body[w].calls[1].method = EthSendRawTransaction
    /\ minGasPrice > 0
    /\ body[w].calls[1].params.raw = minGasPrice

\* C10: with ceiling c = 0 no Call is rejected for its block range; a
\* range query with a symbolic or unspecified bound is never rejected by
\* this check; with two concrete bounds it is rejected with
\* BlockRangeTooWide exactly when toBlock - fromBlock > c.
C10_BlockRangeCeiling ==
  \A w \in Workers :
    Checked(w) /\ body[w].kind \in {"single", "batch"} =>
      LET calls == body[w].calls
          last == calls[Len(calls)]
          reached == \A k \in 1..(Len(calls) - 1) :
                       /\ IsAllowed(calls[k].method)
                       /\ ~FeeTooLow(calls[k]) /\ ~Undecodable(calls[k])
                       /\ ~RangeTooWide(calls[k])
      IN /\ outcome[w] = "BlockRangeTooWide" => \E k \in DOMAIN calls : RangeTooWide(calls[k])
         /\ (reached /\ IsAllowed(last.method)) =>
              (outcome[w] = "BlockRangeTooWide" <=> RangeTooWide(last))
         /\ (\E k \in DOMAIN calls : RangeTooWide(calls[k])) => ~Forwarding(w)

\* A range query spanning exactly the ceiling went upstream.
C10_Witness ==
  \E w \in Workers :
    /\ outcome[w] = "forwarded" /\ body[w].kind = "single"
    /\ body[w].calls[1].method = EthGetLogs
    /\ blockRangeLimit > 0
    /\ body[w].calls[1].params.fromBlock.tag = "number"
    /\ body[w].calls[1].params.toBlock.tag = "number"
    /\ body[w].calls[1].params.toBlock.height
         - body[w].calls[1].params.fromBlock.height = blockRangeLimit

\* C11: every response the proxy produces, on any route (GET /, HEAD /,
\* ANY /*, ANY /ws), carries the identifying header X-rpc-proxy.
C11_EveryResponseIdentified ==
  response.route # "none" => IdentifyingHeader \in response.headers

InvalidConfig(c) == NewServerError(c) # NilError

\* The process listens only on a constructed Server, and with an invalid
\* configuration it has neither constructed one nor served anything.
ListensOnlyOnValidConfig ==
  /\ mainPc \in {"ListenAndServe", "listening"} =>
       (~InvalidConfig(cfg) /\ err = NilError /\ matcher = cfg.Allow)
  /\ InvalidConfig(cfg) =>
       (NoServer /\ started = 0 /\ response = NoResponse)
  /\ err.msg = "failed to start server" =>
       (mainPc = "exited" /\ InvalidConfig(cfg))

\* C12: with an invalid upstream URL, WebSocket URL or method pattern,
\* NewServer fails, run returns that error wrapped, and the process never
\* listens or serves; the process listens only on a constructed Server.
C12_InvalidConfigNeverServes ==
  /\ []ListensOnlyOnValidConfig
  /\ [][(mainPc = "run" /\ InvalidConfig(Sorted(cfg))) =>
          (mainPc' = "exited" /\ err' = FailedToStart(NewServerError(Sorted(cfg))))]_vars

\* A WebSocket URL that does not parse has made run return.
C12_Witness ==
  /\ mainPc = "exited"
  /\ ~ParseFails(cfg.URL)
  /\ ParseFails(cfg.WSURL)
  /\ err = FailedToStart(Error("parse"))

\* The operator gave setting s in the file and on the command line.
Conflict(s) == TomlGives(s) /\ s \in flags.given

TwoPlaces(s) ==
  CASE s = "port" -> "port set in two places"
    [] s = "url" -> "url set in two places"
    [] s = "wsurl" -> "ws url set in two places"
    [] s = "rpm" -> "rpm set in two places"
    [] s = "allow" -> "allow set in two places"
    [] s = "nolimit" -> "nolimit set in two places"
    [] s = "blocklimit" -> "block range limit set in two places"
    [] s = "mingasprice" -> "min gas price set in two places"

\* cfg holds the file's value of setting s.
HandsOverFileValue(s) ==
  CASE s = "port" -> cfg.Port = toml.Port
    [] s = "url" -> cfg.URL = toml.URL
    [] s = "wsurl" -> cfg.WSURL = toml.WSURL
    [] s = "rpm" -> cfg.RPM = toml.RPM
    [] s = "allow" -> Sorted(cfg).Allow = Sorted(toml).Allow
    [] s = "nolimit" -> Sorted(cfg).NoLimit = Sorted(toml).NoLimit
    [] s = "blocklimit" -> cfg.BlockRangeLimit = toml.BlockRangeLimit
    [] s = "mingasprice" -> cfg.MinGasPrice = toml.MinGasPrice

\* C19: once the file is loaded and the flags merged, startup has failed
\* with "<setting> set in two places" exactly when the operator gave that
\* setting in the file and on the command line; then no Server exists.
\* Without a conflict, a setting given only in the file is in cfg.
C19_RejectsOnlyRealConflicts ==
  mainPc # "start" /\ flags.config \notin MissingFiles =>
    /\ \A s \in SettingNames : (err.msg = TwoPlaces(s) => Conflict(s))
    /\ (\E s \in SettingNames : Conflict(s)) =>
         (/\ \E s \in SettingNames : err.msg = TwoPlaces(s)
          /\ mainPc = "exited"
          /\ NoServer)
    /\ (\A s \in SettingNames : ~Conflict(s)) =>
         (\A s \in SettingNames :
            (TomlGives(s) /\ s \notin flags.given) => HandsOverFileValue(s))

\* The worker holds the registry lock, for reading or for writing.
HoldsLock(w) == rwWriter = w \/ w \in rwReaders

\* C14: a worker at limiter.Allow(), or at any later step of its request
\* (returned from AllowVisitor, body read, upstream round trip, response),
\* holds no registry lock.
C14_NoLockWhileConsuming ==
  \A w \in Workers :
    pc[w] \in {"Allow", "returned", "parsed", "forward", "done", "panicked"} =>
      ~HoldsLock(w)

\* One worker is about to consume from its bucket while another, for a
\* different IP, holds the write lock.
C14_Witness ==
  \E w \in Workers, v \in Workers :
    /\ pc[w] = "Allow"
    /\ pc[v] = "taBody" /\ rwWriter = v
    /\ ip[v] # ip[w]

\* C17: once the process listens, no step of request handling changes the
\* exempt set, the matcher, the limit, the gas floor or the range ceiling.
C17_ConfigImmutableWhileServing ==
  [][mainPc = "listening" => cfgVars' = cfgVars]_vars

\* Requests of both proxied routes have been handled and a bucket was
\* created on the way.
C17_Witness ==
  /\ mainPc = "listening"
  /\ started = MaxRequests
  /\ response.route = "/ws"
  /\ DOMAIN visitors # {}
  /\ pc["w1"] = "done" /\ outcome["w1"] = "forwarded"

\* The AllowVisitor calls for IP i that have returned, and those of them
\* that returned allowed = true.
Returned(i) == {w \in Callers : ip[w] = i /\ pc[w] = "returned"}
Granted(i) == {w \in Returned(i) : allowed[w]}

\* C13: with no time elapsing, when k calls for one non-exempt IP have run
\* against its bucket of t tokens, exactly min(k, t) of them were allowed
\* and the bucket holds max(0, t - k) tokens, in every interleaving.
C13_ExactTokenAccounting ==
  \A i \in DOMAIN visitors :
    LET b == heap[visitors[i]]
        k == Cardinality(Returned(i))
    IN ~b.inf =>
         /\ Cardinality(Granted(i)) = Min(k, b.burst)
         /\ b.tokens = Max(0, b.burst - k) * b.unit

\* Three calls ran against a bucket of two tokens: two allowed, one not.
C13_Witness ==
  \E i \in DOMAIN visitors :
    /\ heap[visitors[i]].burst = 2
    /\ Cardinality(Returned(i)) = 3
    /\ Cardinality(Granted(i)) = 2
    /\ heap[visitors[i]].tokens = 0

\* C15: an entry of the visitors map is never removed and never replaced;
\* a bucket's rate and capacity are those of its creation whatever limit
\* later calls pass; a bucket changes only by the limiter.Allow() of a
\* caller that holds it.
C15_EntriesArePermanent ==
  [][/\ DOMAIN visitors \subseteq DOMAIN visitors'
     /\ \A i \in DOMAIN visitors : visitors'[i] = visitors[i]
     /\ \A h \in DOMAIN heap :
          /\ h \in DOMAIN heap'
          /\ heap'[h].inf = heap[h].inf
          /\ heap'[h].unit = heap[h].unit
          /\ heap'[h].burst = heap[h].burst
          /\ heap'[h] # heap[h] =>
               \E w \in Callers :
                 pc[w] = "Allow" /\ limiter[w] = h /\ pc'[w] = "returned"]_vars

\* A later call passed another limit than the one the bucket was created
\* with, and has consumed from that bucket after time has passed.
C15_Witness ==
  \E w \in Callers :
    /\ pc[w] = "returned" /\ ~added[w] /\ limiter[w] # Nil
    /\ limitArg[w] # 0
    /\ limitArg[w] # heap[limiter[w]].rpm
    /\ heap[limiter[w]].burst = BurstOf(heap[limiter[w]].rpm)
    /\ now > 0

\* The calls for IP i that inserted, or will report to have inserted, its
\* entry.
Creators(i) == {w \in Callers : ip[w] = i /\ added[w]}

\* C16: for each IP with an entry in the visitors map exactly one call has
\* bucketCreated = true, the one that inserted the entry; every other
\* call, and every call for an IP without entry, has bucketCreated = false.
C16_CreatedExactlyOnce ==
  \A i \in IPs :
    /\ Cardinality(Creators(i)) = IF i \in DOMAIN visitors THEN 1 ELSE 0
    /\ \A w \in Creators(i) : limiter[w] = visitors[i] /\ i \notin noLimitIPs

\* Two calls for one IP both missed in getVisitor and both returned: one
\* with bucketCreated = true, the other with false.
C16_Witness ==
  \E w \in Callers, v \in Callers :
    /\ w # v /\ ip[w] = ip[v]
    /\ pc[w] = "returned" /\ pc[v] = "returned"
    /\ ~exists[w] /\ ~exists[v]
    /\ added[w] /\ ~added[v]

Finished(w) == pc[w] \in {"returned", "panicked"}

\* A caller about to request a registry lock holds none.
RequestsHoldingNothing ==
  \A w \in Callers : pc[w] \in {"getVisitor", "tryAddVisitor"} => ~HoldsLock(w)

\* C18: under fair scheduling every AllowVisitor call terminates; a caller
\* requests a lock only while holding none, and every lock acquired is
\* released.
C18_EveryCallTerminates ==
  /\ []RequestsHoldingNothing
  /\ \A w \in Callers : (pc[w] = "AllowVisitor") ~> Finished(w)
  /\ (rwWriter # "none" \/ rwReaders # {}) ~> (rwWriter = "none" /\ rwReaders = {})

\* Three concurrent calls have all ended, one of them by the panic of a
\* zero limit, with the registry lock free.
C18_Witness ==
  /\ \A w \in Callers : Finished(w)
  /\ \E w \in Callers : pc[w] = "panicked"
  /\ \E w \in Callers : pc[w] = "returned" /\ added[w]
  /\ rwWriter = "none" /\ rwReaders = {}

====
